---- MODULE Spec2Model ----
(***************************************************************************)
(* The a0 command-line chat client: the streaming line-wrap renderer of    *)
(* stream_response (main.py and its stand-alone predecessor a0.py), the    *)
(* main loop with its plugin dispatch, and the ChromaManager singleton.    *)
(*                                                                         *)
(* A string is a sequence of one-character strings.  sys.stdout is the     *)
(* sequence of the strings handed to sys.stdout.write, in call order.      *)
(***************************************************************************)
EXTENDS Integers, Sequences, FiniteSets, TLC

\* ------------------------------------------------------------------ bounds
\* longest response text (characters over all chunks) of the wrapper runs
MaxText == 5
\* widest measured terminal of the wrapper runs
MaxWidth == 3
\* most entries of chat_history
MaxHistory == 2
\* most chunks of one response in the chat runs
MaxChunks == 2
\* most documents in the a0_docs collection
MaxDocs == 1

\* ------------------------------------------------------- program constants
\* main.py:47  term_width = min(getTermWidth(), 100)
WIDTH_CAP == 100
\* includes.py:36  getTermWidth's value when the query raises
DEFAULT_WIDTH_MAIN == 100
\* a0.py:21  get_terminal_width's value when the query raises
DEFAULT_WIDTH_A0 == 80

SP == " "
NL == "\n"
Letters == {"a", "b"}
Chars == Letters \cup {SP, NL}

\* ------------------------------------------------------------ str helpers
Min(x, y) == IF x <= y THEN x ELSE y

\* all strings over S of length lo..hi
StrOver(S, lo, hi) == UNION {[1..n -> S] : n \in lo..hi}

\* index of the first occurrence of ch in s, 0 when there is none (str.find)
Find(s, ch) ==
  IF \E i \in 1..Len(s) : s[i] = ch
  THEN CHOOSE i \in 1..Len(s) : s[i] = ch /\ \A j \in 1..(i-1) : s[j] # ch
  ELSE 0

\* s.split(sep) for a one-character sep: always at least one part
RECURSIVE Split(_, _)
Split(s, sep) ==
  LET i == Find(s, sep)
  IN IF i = 0 THEN <<s>>
     ELSE <<SubSeq(s, 1, i - 1)>> \o Split(SubSeq(s, i + 1, Len(s)), sep)

\* the characters of a sequence of writes, in order
RECURSIVE Flatten(_)
Flatten(ws) == IF ws = <<>> THEN <<>> ELSE Head(ws) \o Flatten(Tail(ws))

\* -------------------------------------------------------------- the wrapper
\* wrap state while a chunk is processed: the writes so far and the column
Write(st, s) == [out |-> Append(st.out, s), cll |-> st.cll + Len(s)]
NewLine(st) == [out |-> Append(st.out, <<NL>>), cll |-> 0]

\* WordStep without the forced break before a word that does not fit
WordStep_NoForcedBreak(st, i, word, tw) ==
  LET s1 == IF i > 0
            THEN IF st.cll + 1 + Len(word) > tw
                 THEN NewLine(st)
                 ELSE Write(st, <<SP>>)
            ELSE st
  IN Write(s1, word)

\* WordStep forcing the break already when the word exactly fills the line
WordStep_BreakWhenFull(st, i, word, tw) ==
  LET s1 == IF i > 0
            THEN IF st.cll + 1 + Len(word) > tw
                 THEN NewLine(st)
                 ELSE Write(st, <<SP>>)
            ELSE st
      s2 == IF Len(word) + s1.cll >= tw /\ s1.cll # 0
            THEN NewLine(s1)
            ELSE s1
  IN Write(s2, word)

\* WordStep writing the space first and wrapping afterwards
WordStep_SpaceThenBreak(st, i, word, tw) ==
  LET s1 == IF i > 0 THEN Write(st, <<SP>>) ELSE st
      s2 == IF Len(word) + s1.cll > tw /\ s1.cll # 0
            THEN NewLine(s1)
            ELSE s1
  IN Write(s2, word)

\* WordStep skipping the empty words that consecutive spaces produce
WordStep_SkipEmptyWord(st, i, word, tw) ==
  LET s1 == IF i > 0
            THEN IF st.cll + 1 + Len(word) > tw
                 THEN NewLine(st)
                 ELSE Write(st, <<SP>>)
            ELSE st
      s2 == IF Len(word) + s1.cll > tw /\ s1.cll # 0
            THEN NewLine(s1)
            ELSE s1
  IN IF word = <<>> THEN st ELSE Write(s2, word)

\* the body of `for i, word in enumerate(words)` for one word
WordStep(st, i, word, tw) ==
  LET s1 == IF i > 0
            THEN IF st.cll + 1 + Len(word) > tw
                 THEN NewLine(st)
                 ELSE Write(st, <<SP>>)
            ELSE st
      s2 == IF Len(word) + s1.cll > tw /\ s1.cll # 0
            THEN NewLine(s1)
            ELSE s1
  IN Write(s2, word)

\* `for i, word in enumerate(words)` from index i on
RECURSIVE WordLoop(_, _, _, _)
WordLoop(st, words, i, tw) ==
  IF words = <<>> THEN st
  ELSE WordLoop(WordStep(st, i, Head(words), tw), Tail(words), i + 1, tw)

\* the body of `for line_index, line in enumerate(lines)` for one line
LineStep(st, line_index, line, tw) ==
  LET s1 == IF line_index > 0 THEN NewLine(st) ELSE st
  IN WordLoop(s1, Split(line, SP), 0, tw)

RECURSIVE LineLoop(_, _, _, _)
LineLoop(st, lines, line_index, tw) ==
  IF lines = <<>> THEN st
  ELSE LineLoop(LineStep(st, line_index, Head(lines), tw), Tail(lines),
                line_index + 1, tw)

\* the wrapper's work on one non-empty chunk content
WrapChunk(st, content, tw) == LineLoop(st, Split(content, NL), 0, tw)

\* what one chunk adds to the sink and the column (main.py:56-88); a content
\* that is None or "" is falsy and skipped by `if content:`
ProcessContent(st, content, tw) ==
  IF content = <<>> THEN st ELSE WrapChunk(st, content, tw)

\* ---------------------------------------------------------------- the state
VARIABLES
  variant,              \* which script runs: "main" (main.py) or "a0" (a0.py)
  term,                 \* the terminal: [raises, columns] of get_terminal_size
  pc,                   \* "input": blocked in input(); "stream": in the chunk
                        \* loop of stream_response; "exit": the loop was left
  user_input,           \* the stripped line read by input()
  printed,              \* what the last handler passed to print()
  chat_history,         \* the list of {"prompt", "response"} entries
  clipboard,            \* [set, text]: what copyClipboard last stored
  messages,             \* the messages list of the latest chat request
  prompt,               \* stream_response's argument
  full_response,        \* the verbatim accumulation of the chunk contents
  term_width,           \* the width fixed before the chunk loop
  current_line_length,  \* the wrap state
  sink,                 \* the strings passed to sys.stdout.write, in order
  delivered,            \* the contents the stream has yielded so far
  cm_client,            \* ChromaManager._client: 0 is None, else the client
  cm_collection,        \* ChromaManager._collection: 0 is None, else the
                        \* client the collection handle was obtained from
  n_clients,            \* how many chromadb.Client objects were constructed
  db_exists,            \* the store holds a collection named a0_docs
  db_docs,              \* the documents of that collection
  coll                  \* the handle the last get_collection() returned

chatVars == <<variant, term, pc, user_input, printed, chat_history, clipboard,
              messages>>
streamVars == <<prompt, full_response, term_width, current_line_length, sink,
                delivered>>
chromaVars == <<cm_client, cm_collection, n_clients, db_exists, db_docs, coll>>
vars == <<chatVars, streamVars, chromaVars>>

\* ------------------------------------------------------------ more strings
\* str.lower on the alphabet of the modelled inputs
LowerChar(c) ==
  CASE c = "E" -> "e" [] c = "X" -> "x" [] c = "I" -> "i" [] c = "T" -> "t"
    [] c = "Q" -> "q" [] c = "U" -> "u" [] OTHER -> c
Lower(s) == [i \in 1..Len(s) |-> LowerChar(s[i])]

IsSpace(c) == c \in {SP, NL}

\* str.strip(): leading and trailing whitespace removed
RECURSIVE LStrip(_)
LStrip(s) == IF s # <<>> /\ IsSpace(Head(s)) THEN LStrip(Tail(s)) ELSE s
RECURSIVE RStrip(_)
RStrip(s) ==
  IF s # <<>> /\ IsSpace(s[Len(s)]) THEN RStrip(SubSeq(s, 1, Len(s) - 1)) ELSE s
Strip(s) == RStrip(LStrip(s))

\* s.split(" ", 1): one part, or the first token and the rest
Split1(s) ==
  LET i == Find(s, SP)
  IN IF i = 0 THEN <<s>> ELSE <<SubSeq(s, 1, i - 1), SubSeq(s, i + 1, Len(s))>>

\* an Optional[str]
None == [none |-> TRUE, val |-> <<>>]
Some(s) == [none |-> FALSE, val |-> s]

S_exit == <<"e", "x", "i", "t">>
S_quit == <<"q", "u", "i", "t">>
CMD_COPY == <<"-", "c">>
CMD_FIX == <<"-", "f">>
CMD_DBSTORE == <<"-", "d", "b", "s", "t", "o", "r", "e">>
CMD_DBQUERY == <<"-", "d", "b", "q", "u", "e", "r", "y">>
CMD_DBCLEAR == <<"-", "d", "b", "c", "l", "e", "a", "r">>
CMD_DBEMBED == <<"-", "d", "b", "e", "m", "b", "e", "d">>

\* literal text blocks of the source, each kept as one element
FIX_SUFFIX == <<"!!! ONLY respond with a code fix, no explanation text. The goal is to be able to copy it right into source code. Do NOT wrap it in markdown!!!">>
SYSTEM_PROMPT == <<"You are a helpful assistant.">>
COLOR_USER == "ESC[0m"
COLOR_ASSISTANT == "ESC[94m"

\* the dict load_plugins returns, by its keys: one instance per Plugin
\* subclass found in the plugins folder
LoadedPlugins ==
  {CMD_COPY, CMD_FIX, CMD_DBSTORE, CMD_DBQUERY, CMD_DBCLEAR, CMD_DBEMBED}

\* ------------------------------------------------------------ terminal width
\* includes.getTermWidth
getTermWidth(t) == IF t.raises THEN DEFAULT_WIDTH_MAIN ELSE t.columns
\* a0.get_terminal_width
get_terminal_width(t) == IF t.raises THEN DEFAULT_WIDTH_A0 ELSE t.columns
\* the term_width stream_response fixes before its chunk loop
StreamWidth(v, t) ==
  IF v = "main" THEN Min(getTermWidth(t), WIDTH_CAP) ELSE get_terminal_width(t)

\* -------------------------------------------------------------- ChromaManager
\* what a plugin's run() can read and change besides chat_history
World ==
  [clipboard |-> clipboard, cm_client |-> cm_client,
   cm_collection |-> cm_collection, n_clients |-> n_clients,
   db_exists |-> db_exists, db_docs |-> db_docs, coll |-> coll,
   printed |-> <<>>]

Say(w, msg) == [w EXCEPT !.printed = Append(w.printed, msg)]

\* ChromaManager.get_collection: the world after the call; the returned handle
\* is left in coll
GetCollection(w) ==
  LET w1 == IF w.cm_client = 0
            THEN [w EXCEPT !.cm_client = w.n_clients + 1,
                           !.n_clients = w.n_clients + 1]
            ELSE w
      w2 == IF w1.cm_collection = 0
            THEN [w1 EXCEPT !.cm_collection = w1.cm_client, !.db_exists = TRUE]
            ELSE w1
  IN [w2 EXCEPT !.coll = w2.cm_collection]

\* client.delete_collection(name="a0_docs"): it raises when the store holds no
\* such collection, and may raise for any other reason leaving the store as
\* it is; the bare except of clear_db swallows both
DeleteCollection(w) ==
  {w}
  \cup (IF w.db_exists
        THEN {[w EXCEPT !.db_exists = FALSE, !.db_docs = <<>>]}
        ELSE {})

\* clear_db dropping the client together with the collection handle
ClearDb_ResetClient(w) ==
  IF w.cm_client # 0
  THEN {[d EXCEPT !.cm_collection = 0, !.cm_client = 0] :
          d \in DeleteCollection(w)}
  ELSE {w}

\* ChromaManager.clear_db: the worlds the call can leave
ClearDb(w) ==
  IF w.cm_client # 0
  THEN {[d EXCEPT !.cm_collection = 0] : d \in DeleteCollection(w)}
  ELSE {w}

\* coll.add(documents=[doc], ...)
AddDoc(w, doc) == [w EXCEPT !.db_docs = Append(w.db_docs, doc)]

\* ---------------------------------------------------------------- plugins
Outcome(r, w) == [result |-> r, w |-> w]

\* what open("embed.txt") can find: no file, a blank file, a document
EmbedFiles ==
  {[exists |-> FALSE, text |-> <<>>],
   [exists |-> TRUE, text |-> <<SP>>],
   [exists |-> TRUE, text |-> <<"d", NL>>]}

\* CopyResponsePlugin.run
CopyResponseRun(ui, hist, w) ==
  IF hist # <<>>
  THEN {Outcome(None,
          Say([w EXCEPT !.clipboard =
                 [set |-> TRUE, text |-> hist[Len(hist)].response]],
              "Last response copied to clipboard."))}
  ELSE {Outcome(None, Say(w, "No response to copy yet."))}

\* FixCodePlugin.run
FixCodeRun(ui, hist, w) == {Outcome(Some(ui \o FIX_SUFFIX), w)}

\* DBStorePlugin.run
DBStoreRun(ui, hist, w) ==
  LET parts == Split1(ui)
  IN IF Len(parts) < 2
     THEN {Outcome(None, Say(w, "Usage: -dbstore <text>"))}
     ELSE {Outcome(None,
             Say(AddDoc(GetCollection(w), Strip(parts[2])), "Stored doc ID"))}

\* the prompt DBQueryPlugin builds from the question and the nearest document
QueryPrompt(query, best_doc) ==
  query \o <<NL, NL, "-----", NL, "Relevant doc:", NL>>
        \o best_doc \o <<NL, "-----", NL>>

\* DBQueryPlugin.run: which stored document is nearest is the store's choice
DBQueryRun(ui, hist, w) ==
  LET parts == Split1(ui)
  IN IF Len(parts) < 2
     THEN {Outcome(None, Say(w, "Usage: -dbquery <question>"))}
     ELSE LET query == Strip(parts[2])
              w1 == GetCollection(w)
          IN IF Len(w1.db_docs) = 0
             THEN {Outcome(None, Say(w1, "No documents found in the DB!"))}
             ELSE {Outcome(Some(QueryPrompt(query, w1.db_docs[k])),
                           Say(w1, "Top doc ID")) : k \in 1..Len(w1.db_docs)}

\* DBClearPlugin.run
DBClearRun(ui, hist, w) ==
  {Outcome(None, Say(c, "Chroma database cleared!")) : c \in ClearDb(w)}

\* DBEmbedPlugin.run
DBEmbedRun(ui, hist, w) ==
  {IF ~f.exists
   THEN Outcome(None, Say(w, "No embed.txt found!"))
   ELSE IF Strip(f.text) = <<>>
   THEN Outcome(None, Say(w, "embed.txt is empty!"))
   ELSE Outcome(None,
          Say(AddDoc(GetCollection(w), Strip(f.text)), "Embedded content"))
   : f \in EmbedFiles}

\* plugins[cmd].run(user_input, chat_history, copyClipboard): the outcomes
PluginRun(cmd, ui, hist, w) ==
  CASE cmd = CMD_COPY -> CopyResponseRun(ui, hist, w)
    [] cmd = CMD_FIX -> FixCodeRun(ui, hist, w)
    [] cmd = CMD_DBSTORE -> DBStoreRun(ui, hist, w)
    [] cmd = CMD_DBQUERY -> DBQueryRun(ui, hist, w)
    [] cmd = CMD_DBCLEAR -> DBClearRun(ui, hist, w)
    [] cmd = CMD_DBEMBED -> DBEmbedRun(ui, hist, w)

\* apply_plugin_if_needed falling through to the chat when run() returns None
ApplyPluginIfNeeded_FallThrough(ui, plugins, hist, w) ==
  LET first_token == Split1(ui)[1]
  IN IF first_token \in plugins
     THEN {IF o.result.none
           THEN Outcome(Some(ui), o.w)
           ELSE Outcome(Some(o.result.val), o.w)
           : o \in PluginRun(first_token, ui, hist, w)}
     ELSE {Outcome(Some(ui), w)}

\* includes.apply_plugin_if_needed: the value returned and the world left
ApplyPluginIfNeeded(ui, plugins, hist, w) ==
  LET first_token == Split1(ui)[1]
  IN IF first_token \in plugins
     THEN {IF o.result.none
           THEN Outcome(None, o.w)
           ELSE Outcome(Some(o.result.val), o.w)
           : o \in PluginRun(first_token, ui, hist, w)}
     ELSE {Outcome(Some(ui), w)}

\* the messages list stream_response sends
RECURSIVE HistoryMessages(_)
HistoryMessages(hist) ==
  IF hist = <<>> THEN <<>>
  ELSE <<[role |-> "user", content |-> Head(hist).prompt],
         [role |-> "assistant", content |-> Head(hist).response]>>
       \o HistoryMessages(Tail(hist))
BuildMessages(hist, p) ==
  <<[role |-> "system", content |-> SYSTEM_PROMPT]>>
  \o HistoryMessages(hist) \o <<[role |-> "user", content |-> p]>>

\* ---------------------------------------------------------------- actions
NoClip == [set |-> FALSE, text |-> <<>>]

SetWorld(w) ==
  /\ clipboard' = w.clipboard
  /\ cm_client' = w.cm_client
  /\ cm_collection' = w.cm_collection
  /\ n_clients' = w.n_clients
  /\ db_exists' = w.db_exists
  /\ db_docs' = w.db_docs
  /\ coll' = w.coll

\* the locals of stream_response do not outlive the call
DropStreamLocals ==
  /\ prompt' = <<>>
  /\ full_response' = <<>>
  /\ term_width' = 0
  /\ current_line_length' = 0
  /\ sink' = <<>>
  /\ delivered' = <<>>

\* `continue`: the iteration ends without a chat request
Continue(w) ==
  /\ pc' = "input"
  /\ SetWorld(w)
  /\ printed' = w.printed
  /\ UNCHANGED <<chat_history, messages, streamVars>>

\* print() and the call stream_response(p) up to its chunk loop
CallStreamResponse(p, w) ==
  /\ Len(chat_history) < MaxHistory
  /\ pc' = "stream"
  /\ SetWorld(w)
  /\ printed' = w.printed \o <<"", COLOR_ASSISTANT>>
  /\ messages' = BuildMessages(chat_history, p)
  /\ prompt' = p
  /\ full_response' = <<>>
  /\ term_width' = StreamWidth(variant, term)
  /\ current_line_length' = 0
  /\ sink' = <<>>
  /\ delivered' = <<>>
  /\ UNCHANGED chat_history

\* a0.py's inline handling of "-c"
A0Copy(hist, w) ==
  IF hist # <<>>
  THEN Say([w EXCEPT !.clipboard =
              [set |-> TRUE, text |-> hist[Len(hist)].response]],
           "Last response copied to clipboard.")
  ELSE Say(w, "No response to copy yet.")

\* one iteration of the `while True` loop, from input() to the chunk loop of
\* stream_response or to the next input()
UserInput(raw) ==
  /\ pc = "input"
  /\ user_input' = Strip(raw)
  /\ UNCHANGED <<variant, term>>
  /\ IF Lower(Strip(raw)) \in {S_exit, S_quit}
     THEN /\ pc' = "exit"
          /\ printed' = <<"Goodbye!">>
          /\ UNCHANGED <<chat_history, clipboard, messages, streamVars,
                         chromaVars>>
     ELSE IF variant = "main"
     THEN \E o \in ApplyPluginIfNeeded(Strip(raw), LoadedPlugins,
                                       chat_history, World) :
            /\ Len(o.w.db_docs) <= MaxDocs
            /\ IF o.result.none
               THEN Continue(o.w)
               ELSE CallStreamResponse(o.result.val, o.w)
     ELSE IF Strip(raw) = CMD_COPY
     THEN Continue(A0Copy(chat_history, World))
     ELSE CallStreamResponse(Strip(raw), World)

\* the chunk loop measuring the terminal again for every chunk
Feed_RereadWidth(content) ==
  /\ pc = "stream"
  /\ term_width' = StreamWidth(variant, term)
  /\ LET st == ProcessContent([out |-> sink, cll |-> current_line_length],
                              content, term_width')
     IN /\ sink' = st.out
        /\ current_line_length' = st.cll
  /\ full_response' = IF content # <<>> THEN full_response \o content
                      ELSE full_response
  /\ delivered' = Append(delivered, content)
  /\ UNCHANGED <<chatVars, chromaVars, prompt>>

\* the stream yields one more chunk: one pass of the chunk loop
Feed(content) ==
  /\ pc = "stream"
  /\ LET st == ProcessContent([out |-> sink, cll |-> current_line_length],
                              content, term_width)
     IN /\ sink' = st.out
        /\ current_line_length' = st.cll
  /\ full_response' = IF content # <<>> THEN full_response \o content
                      ELSE full_response
  /\ delivered' = Append(delivered, content)
  /\ UNCHANGED <<chatVars, chromaVars, prompt, term_width>>

\* the epilogue storing the text as it was rendered
EndStream_StoreRendered ==
  /\ pc = "stream"
  /\ pc' = "input"
  /\ printed' = <<COLOR_USER, "">>
  /\ chat_history' =
       Append(chat_history, [prompt |-> prompt, response |-> Flatten(sink)])
  /\ DropStreamLocals
  /\ UNCHANGED <<variant, term, user_input, clipboard, messages, chromaVars>>

\* the stream is exhausted: the epilogue of stream_response
EndStream ==
  /\ pc = "stream"
  /\ pc' = "input"
  /\ printed' = <<COLOR_USER, "">>
  /\ chat_history' =
       Append(chat_history, [prompt |-> prompt, response |-> full_response])
  /\ DropStreamLocals
  /\ UNCHANGED <<variant, term, user_input, clipboard, messages, chromaVars>>

\* Ctrl-C in input() or while a response streams
KeyboardInterrupt ==
  /\ pc \in {"input", "stream"}
  /\ pc' = "exit"
  /\ printed' = <<"Goodbye!">>
  /\ DropStreamLocals
  /\ UNCHANGED <<variant, term, user_input, chat_history, clipboard, messages,
                 chromaVars>>

\* the terminal is resized, or its size stops or starts being available
Resize(t) ==
  /\ pc # "exit"
  /\ t # term
  /\ term' = t
  /\ UNCHANGED <<variant, pc, user_input, printed, chat_history, clipboard,
                 messages, streamVars, chromaVars>>

\* ------------------------------------------------------------ environments
Terminal(c) == [raises |-> FALSE, columns |-> c]
NoTerminal == [raises |-> TRUE, columns |-> 0]

InitProgram ==
  /\ pc = "input"
  /\ user_input = <<>>
  /\ printed = <<>>
  /\ chat_history = <<>>
  /\ clipboard = NoClip
  /\ messages = <<>>
  /\ prompt = <<>>
  /\ full_response = <<>>
  /\ term_width = 0
  /\ current_line_length = 0
  /\ sink = <<>>
  /\ delivered = <<>>
  /\ cm_client = 0
  /\ cm_collection = 0
  /\ n_clients = 0
  /\ coll = 0

\* -- a session of commands: either script on an 80-column terminal, a store
\* -- left by earlier runs, every kind of line typed, replies of at most "a"
ChatInputs ==
  {<<"h", "i">>, <<"Q", "u", "i", "t">>,
   <<SP>> \o CMD_COPY \o <<SP>>, CMD_COPY \o <<"x">>,
   CMD_FIX \o <<SP, "x">>,
   CMD_DBSTORE, CMD_DBSTORE \o <<SP, SP, "d">>,
   CMD_DBQUERY, CMD_DBQUERY \o <<SP, "q">>,
   CMD_DBCLEAR, CMD_DBEMBED}

Init ==
  /\ InitProgram
  /\ variant \in {"main", "a0"}
  /\ term = Terminal(DEFAULT_WIDTH_A0)
  /\ db_exists \in BOOLEAN
  /\ db_docs \in (IF db_exists THEN {<<>>, << <<"d">> >>} ELSE {<<>>})

Type == \E raw \in ChatInputs : UserInput(raw)
Reply == delivered = <<>> /\ Feed(<<"a">>)

Next == Type \/ Reply \/ EndStream \/ KeyboardInterrupt

Spec == Init /\ [][Next]_vars

\* -- a session of plain questions: either script, a terminal that is one
\* -- column wide, wider than the cap or unavailable and changes at any time,
\* -- responses of up to MaxChunks chunks, some of them without content
ChatTerminals == {Terminal(1), Terminal(WIDTH_CAP + 1), NoTerminal}
ChatChunks == {<<>>, <<SP, "a">>}
PlainInputs == {<<"h", "i">>, CMD_FIX \o <<SP, "x">>}

InitStream ==
  /\ InitProgram
  /\ variant \in {"main", "a0"}
  /\ term \in ChatTerminals
  /\ db_exists = FALSE
  /\ db_docs = <<>>

Question == \E raw \in PlainInputs : UserInput(raw)
Chunk == Len(delivered) < MaxChunks /\ \E c \in ChatChunks : Feed(c)
Resized == \E t \in ChatTerminals : Resize(t)

NextStream == Question \/ Chunk \/ EndStream \/ Resized \/ KeyboardInterrupt

SpecStream == InitStream /\ [][NextStream]_vars

\* -- one response of either script on a terminal of 1..MaxWidth columns, its
\* -- text of up to MaxText characters cut into non-empty chunks in every way
InitWrap ==
  /\ InitProgram
  /\ variant \in {"main", "a0"}
  /\ term \in {Terminal(c) : c \in 1..MaxWidth}
  /\ db_exists = FALSE
  /\ db_docs = <<>>

Ask == chat_history = <<>> /\ UserInput(<<"h", "i">>)
ChunkText ==
  \E c \in StrOver(Chars, 1, MaxText - Len(full_response)) : Feed(c)

NextWrap == Ask \/ ChunkText \/ EndStream

SpecWrap == InitWrap /\ [][NextWrap]_vars

\* ------------------------------------------------------ reading the sink
\* the column after write j of ws: characters written since the last newline
RECURSIVE ColAfter(_, _)
ColAfter(ws, j) ==
  IF j = 0 \/ ws[j] = <<NL>> THEN 0 ELSE ColAfter(ws, j - 1) + Len(ws[j])

\* the wrapper's output for text fed as one chunk from an empty line
OneChunk(text, tw) ==
  ProcessContent([out |-> <<>>, cll |-> 0], text, tw).out

\* an output character o stands for the input character t
Stands(t, o) == o = t \/ (t = SP /\ o = NL)

\* the output position of input character i: the first one after that of
\* character i - 1 that stands for it (0 when there is none)
RECURSIVE OutPos(_, _, _)
OutPos(text, out, i) ==
  IF i = 0 THEN 0
  ELSE LET prev == OutPos(text, out, i - 1)
           K == {k \in (prev + 1)..Len(out) : Stands(text[i], out[k])}
       IN IF i > 1 /\ prev = 0 THEN 0
          ELSE IF K = {} THEN 0
          ELSE CHOOSE k \in K : \A m \in K : k <= m

\* the words of text: maximal runs i..j without space or newline
WordSpans(text) ==
  {<<i, j>> \in (1..Len(text)) \X (1..Len(text)) :
     /\ i <= j
     /\ \A m \in i..j : ~IsSpace(text[m])
     /\ (i = 1 \/ IsSpace(text[i - 1]))
     /\ (j = Len(text) \/ IsSpace(text[j + 1]))}

\* length of the word text ends with, and of the word it begins with
RECURSIVE TrailRun(_)
TrailRun(s) ==
  IF s = <<>> \/ IsSpace(s[Len(s)]) THEN 0
  ELSE 1 + TrailRun(SubSeq(s, 1, Len(s) - 1))
RECURSIVE LeadRun(_)
LeadRun(s) ==
  IF s = <<>> \/ IsSpace(Head(s)) THEN 0 ELSE 1 + LeadRun(Tail(s))

\* characters other than newlines in writes j..Len(ws)
RECURSIVE InkFrom(_, _)
InkFrom(ws, j) ==
  IF j > Len(ws) THEN 0
  ELSE (IF ws[j] = <<NL>> THEN 0 ELSE Len(ws[j])) + InkFrom(ws, j + 1)

\* the write that holds the first fragment of the word of n characters the
\* output ends with (0 when there is none)
FragStart(ws, n) ==
  LET J == {j \in 1..Len(ws) :
              ws[j] # <<>> /\ ws[j] # <<NL>> /\ InkFrom(ws, j) = n}
  IN IF J = {} THEN 0 ELSE CHOOSE j \in J : TRUE

\* a step of the chunk loop, and the content it processed
IsFeed == pc = "stream" /\ Len(delivered') = Len(delivered) + 1
Fed == delivered'[Len(delivered')]
\* the writes that step added
Added == SubSeq(sink', Len(sink) + 1, Len(sink'))

\* positions of the spaces and newlines of a content, in order
RECURSIVE WsPositions(_, _)
WsPositions(c, from) ==
  IF from > Len(c) THEN <<>>
  ELSE (IF IsSpace(c[from]) THEN <<from>> ELSE <<>>)
       \o WsPositions(c, from + 1)
\* the word that follows position p of c
WordAfter(c, p) == SubSeq(c, p + 1, p + LeadRun(SubSeq(c, p + 1, Len(c))))

\* -------------------------------------------------------------- properties

\* C1: feeding a text cut into non-empty chunks writes the same characters as
\* feeding the whole text as one chunk at the same width.
C1_ChunkingInvariant ==
  (pc = "stream" /\ full_response # <<>>)
    => Flatten(sink) = Flatten(OneChunk(full_response, term_width))

\* C2: after every write the column is at most term_width, except after the
\* write of a word longer than term_width that has its line to itself; so no
\* output line is longer than term_width unless it is one such word.
C2_WidthBound ==
  pc = "stream" =>
    /\ current_line_length = ColAfter(sink, Len(sink))
    /\ \A j \in 1..Len(sink) :
         \/ ColAfter(sink, j) <= term_width
         \/ /\ Len(sink[j]) > term_width
            /\ ColAfter(sink, j) = Len(sink[j])

C2_Witness ==
  /\ pc = "stream"
  /\ Len(delivered) >= 2
  /\ \E j \in 1..Len(sink) : Len(sink[j]) > term_width
  /\ \E j \in 1..Len(sink) :
       /\ sink[j] # <<>>
       /\ Len(sink[j]) <= term_width
       /\ ColAfter(sink, j) = term_width

\* C3: the output is the input with line breaks only where the input has a
\* newline or, as a wrap, in place of an input space: same length, and each
\* output character is the input character or a newline standing for a space.
C3_NewlineFidelity ==
  pc = "stream" =>
    LET out == Flatten(sink)
    IN /\ Len(out) = Len(full_response)
       /\ \A i \in 1..Len(out) : Stands(full_response[i], out[i])

\* C4: when a chunk begins inside a word (the text so far does not end, and
\* the chunk does not begin, with a space or newline) and the word, from the
\* column its first fragment was written at, fits in term_width, the chunk's
\* first write is its fragment of the word: no space, no newline before it.
C4_NoBreakInsideFittingWord ==
  [][(/\ IsFeed
      /\ Fed # <<>>
      /\ TrailRun(full_response) > 0
      /\ LeadRun(Fed) > 0
      /\ LET j == FragStart(sink, TrailRun(full_response))
         IN /\ j > 0
            /\ ColAfter(sink, j - 1) + TrailRun(full_response) + LeadRun(Fed)
                 <= term_width)
     => /\ Added[1] = SubSeq(Fed, 1, LeadRun(Fed))
        /\ sink[Len(sink)] \o Added[1]
             = SubSeq(full_response', Len(full_response) - Len(sink[Len(sink)]) + 1,
                      Len(full_response) + LeadRun(Fed))]_vars

C4_Witness ==
  /\ pc = "stream"
  /\ term_width = 2
  /\ delivered = << <<"a">>, <<"b">> >>
  /\ sink = << <<"a">>, <<"b">> >>

\* C5: every word of the text longer than term_width is in the output whole,
\* with no line break inside it, and alone on its line.
C5_LongWordWhole ==
  pc = "stream" =>
    LET out == Flatten(sink)
    IN \A w \in WordSpans(full_response) :
         (w[2] - w[1] + 1 > term_width) =>
           LET k == OutPos(full_response, out, w[1])
               n == w[2] - w[1] + 1
           IN /\ k > 0
              /\ k + n - 1 <= Len(out)
              /\ SubSeq(out, k, k + n - 1) = SubSeq(full_response, w[1], w[2])
              /\ (k = 1 \/ out[k - 1] = NL)
              /\ (k + n - 1 = Len(out) \/ out[k + n] = NL)

\* C6: for every space or newline of a chunk the wrapper writes exactly one
\* separator and then the word that follows: for a newline a newline, for a
\* space a newline when column + 1 + len(word) > term_width and else a space;
\* nothing else is written but the chunk's first word and at most one forced
\* newline before it, and the column follows the writes.
C6_OneSeparatorPerSpace ==
  [][(IsFeed /\ Fed # <<>>) =>
       LET ws == WsPositions(Fed, 1)
           off == Len(Added) - (2 * Len(ws) + 1)
       IN /\ off \in {0, 1}
          /\ off = 1 => Added[1] = <<NL>>
          /\ Added[off + 1] = SubSeq(Fed, 1, LeadRun(Fed))
          /\ current_line_length' = ColAfter(sink', Len(sink'))
          /\ \A k \in 1..Len(ws) :
               LET word == WordAfter(Fed, ws[k])
                   at == Len(sink) + off + 2 * k
               IN /\ sink'[at + 1] = word
                  /\ sink'[at] =
                       IF Fed[ws[k]] = NL
                            \/ ColAfter(sink', at - 1) + 1 + Len(word) > term_width
                       THEN <<NL>>
                       ELSE <<SP>>]_vars

C6_Witness ==
  /\ pc = "stream"
  /\ term_width = 2
  /\ delivered = << <<"a", SP, SP, "b">> >>
  /\ sink = << <<"a">>, <<SP>>, <<>>, <<NL>>, <<"b">> >>

\* C7: when a stream ends, exactly one entry is appended to chat_history: its
\* prompt is the prompt of the request and its response the contents the
\* stream delivered, concatenated in delivery order, whatever the width and
\* the rendering; no other step changes chat_history, and while a response
\* streams full_response is that concatenation.
C7_HistoryAppend ==
  [][/\ IF pc = "stream" /\ pc' = "input"
        THEN chat_history' =
               Append(chat_history,
                      [prompt |-> messages[Len(messages)].content,
                       response |-> Flatten(delivered)])
        ELSE chat_history' = chat_history
     /\ pc' = "stream" => full_response' = Flatten(delivered')]_vars

C7_Witness ==
  /\ pc = "input"
  /\ variant = "main"
  /\ chat_history =
       <<[prompt |-> <<"h", "i">>, response |-> <<SP, "a", SP, "a">>],
         [prompt |-> CMD_FIX \o <<SP, "x">> \o FIX_SUFFIX,
          response |-> <<SP, "a">>]>>

\* a step of main.py's loop that read a line other than exit/quit
IsMainInput == variant = "main" /\ pc = "input" /\ pc' # "exit"
\* the world a step leaves, but for what was printed
LeavesWorld(w) ==
  /\ clipboard' = w.clipboard
  /\ cm_client' = w.cm_client
  /\ cm_collection' = w.cm_collection
  /\ n_clients' = w.n_clients
  /\ db_exists' = w.db_exists
  /\ db_docs' = w.db_docs
  /\ coll' = w.coll
\* the step made no chat request
NoRequest ==
  pc' = "input" /\ messages' = messages /\ chat_history' = chat_history
    /\ UNCHANGED streamVars
\* the step called stream_response(p)
Requested(p) ==
  pc' = "stream" /\ prompt' = p /\ messages'[Len(messages')].content = p
    /\ chat_history' = chat_history

\* C8: a line whose first token is a loaded command runs that plugin, and the
\* step makes no chat request and leaves chat_history alone when run() returns
\* None, and calls stream_response with exactly the returned string when it
\* returns one; any other line runs no plugin and is the prompt unchanged.
C8_PluginDispatch ==
  [][IsMainInput =>
       LET ui == user_input'
           first_token == Split1(ui)[1]
       IN IF first_token \in LoadedPlugins
          THEN \E o \in PluginRun(first_token, ui, chat_history, World) :
                 /\ LeavesWorld(o.w)
                 /\ IF o.result.none
                    THEN NoRequest /\ printed' = o.w.printed
                    ELSE Requested(o.result.val)
          ELSE /\ Requested(ui)
               /\ LeavesWorld(World)
               /\ printed' = <<"", COLOR_ASSISTANT>>]_vars

C8_Witness ==
  /\ variant = "main"
  /\ pc = "input"
  /\ user_input = CMD_COPY
  /\ printed = <<"Last response copied to clipboard.">>
  /\ clipboard = [set |-> TRUE, text |-> <<"a">>]
  /\ chat_history =
       <<[prompt |-> CMD_FIX \o <<SP, "x">> \o FIX_SUFFIX,
          response |-> <<"a">>]>>

\* C9: the width of a response is fixed when stream_response starts: in
\* main.py min(measured, 100), in a0.py the measured width, and the default
\* (100, 80) when the query raises; no chunk and no resize changes it while
\* the response streams, and in main.py it never exceeds 100.
C9_WidthFixed ==
  [][/\ (pc = "stream" /\ pc' = "stream") => term_width' = term_width
     /\ (pc = "input" /\ pc' = "stream") =>
          term_width' =
            IF variant = "main"
            THEN (IF term.raises THEN DEFAULT_WIDTH_MAIN
                  ELSE Min(term.columns, WIDTH_CAP))
            ELSE (IF term.raises THEN DEFAULT_WIDTH_A0 ELSE term.columns)
     /\ (pc' = "stream" /\ variant = "main") => term_width' <= WIDTH_CAP]_vars

C9_Witness ==
  /\ pc = "stream"
  /\ variant = "main"
  /\ term = Terminal(1)
  /\ term_width = WIDTH_CAP
  /\ delivered = << <<SP, "a">>, <<SP, "a">> >>
  /\ Flatten(sink) = <<SP, "a", SP, "a">>

\* a step of main.py's loop in which a plugin called get_collection()
CalledGetCollection ==
  /\ variant = "main"
  /\ pc = "input"
  /\ \E m \in {"Stored doc ID", "Top doc ID", "No documents found in the DB!",
               "Embedded content"} :
       \E i \in 1..Len(printed') : printed'[i] = m
\* a step of main.py's loop in which -dbclear called clear_db()
CalledClearDb ==
  /\ variant = "main"
  /\ pc = "input"
  /\ printed' = <<"Chroma database cleared!">>

RECURSIVE Ink(_)
Ink(s) ==
  IF s = <<>> THEN <<>>
  ELSE (IF IsSpace(Head(s)) THEN <<>> ELSE <<Head(s)>>) \o Ink(Tail(s))

\* C11: the wrapper changes whitespace only: without spaces and newlines the
\* output equals the input, the output is never shorter than the input, and a
\* text fed as a single chunk from an empty line comes out with its own length
\* and differs only where a newline stands for an input space.
C11_OnlyWhitespaceChanges ==
  pc = "stream" =>
    LET out == Flatten(sink)
    IN /\ Ink(out) = Ink(full_response)
       /\ Len(out) >= Len(full_response)
       /\ Len(delivered) = 1 =>
            /\ Len(out) = Len(full_response)
            /\ \A i \in 1..Len(out) :
                 out[i] = full_response[i]
                   \/ (full_response[i] = SP /\ out[i] = NL)

\* a space replaced by a newline and a newline added at a chunk boundary
C11_Witness ==
  /\ pc = "stream"
  /\ term_width = 1
  /\ delivered = << <<"a", SP, "b">>, <<"a">> >>
  /\ Flatten(sink) = <<"a", NL, "b", NL, "a">>

\* one chunk, two spaces in a row: one kept, one replaced by a newline
C11_WitnessOneChunk ==
  /\ pc = "stream"
  /\ term_width = 2
  /\ delivered = << <<"a", SP, SP, "b">> >>
  /\ Flatten(sink) = <<"a", SP, NL, "b">>

====
